---- MODULE Spec2Model ----
(***************************************************************************)
(* StreamCam WebSocket signaling server (server.js).                       *)
(*                                                                         *)
(* State: the in-memory session store `sessions`, the per-connection       *)
(* closure variables `role` and `pin`, and each WebSocket's channel state. *)
(* One action per event-handler branch; a handler runs to completion       *)
(* (single-threaded event loop), so each action is one atomic step.        *)
(*                                                                         *)
(* Observation variables (not program state): `sent` is the list of        *)
(* send() calls the last handler made, `last` names the last event, `rej`  *)
(* remembers the latest rejected camera registration, `acked` tells which  *)
(* connections had camera:registered as the reply to their latest          *)
(* registration message, `running` tells whether the process is alive.     *)
(***************************************************************************)
EXTENDS Integers, Sequences, FiniteSets, TLC

\* ── Bounds ────────────────────────────────────────────────────────────────
\* Connection identities in use at the same time.
NumConns == 2

\* Messages handled during a run, over all connections.
MaxMsgs == 3

Conns == 1..NumConns

\* ── JavaScript values ─────────────────────────────────────────────────────
\* `null` as the value of the closure variables role and pin.
JSNull == "<null>"

\* A falsy slot (null in a session literal, undefined on an inherited object).
NoConn == 0

\* The `pin` fields clients put on the wire, as JSON texts.
PinInputs == {"\"\"", "\"constructor\"", "null"}

\* pin = String(msg.pin)
String(json) ==
    CASE json = "\"\""            -> ""
      [] json = "\"constructor\"" -> "constructor"
      [] json = "null"            -> "null"

\* The strings a pin can be after String().
Pins == {String(j) : j \in PinInputs}

\* sessions[pin]: a property key is the string form of the value used.
Key(p) == IF p = JSNull THEN "null" ELSE p

\* !pin
Falsy(p) == p = JSNull \/ p = ""

\* `const sessions = {}` inherits from Object.prototype: these keys resolve
\* to an inherited (truthy, extensible) object although they are not own
\* properties of the store.
InheritedKeys == {"constructor"}

\* The `offer` / `answer` / `candidate` fields clients put on the wire.
Payloads == {"\"sdp\"", "1e999"}

\* JSON.stringify(JSON.parse(text)) of a payload field: a number beyond the
\* double range parses to Infinity, which is written back as null.
Reserialize(json) == IF json = "1e999" THEN "null" ELSE json

\* { camera: null, dashboard: null }
EmptySession == [camera |-> NoConn, dashboard |-> NoConn]

NoEvent == [conn |-> 0, type |-> "none"]

NoReject == [conn |-> 0, holder |-> 0, pin |-> ""]

VARIABLES
    chan,       \* [Conns -> "new" | "open" | "down" | "closed"]
    role,       \* [Conns -> JSNull | "camera" | "dashboard"]
    pin,        \* [Conns -> JSNull | string]
    sessions,   \* own properties of the store: key -> session
    inherited,  \* camera/dashboard properties set on inherited objects
    sent,       \* send() calls of the last handler, in order
    last,       \* the last event handled
    rej,        \* the latest rejected camera registration: who, by whom, which pin
    acked,      \* [Conns -> BOOLEAN]: the reply to c's latest registration
                \* message was camera:registered
    msgs,       \* messages handled so far
    running     \* the process is alive (no handler has thrown)

vars == <<chan, role, pin, sessions, inherited, sent, last, rej, acked, msgs,
          running>>

\* ws.on('message') fires for connection c (within the run's message budget).
Receives(c) ==
    /\ running
    /\ chan[c] = "open"
    /\ msgs < MaxMsgs
    /\ msgs' = msgs + 1

\* readyState === WebSocket.OPEN
IsOpen(c) == c # NoConn /\ chan[c] = "open"

\* A message as passed to send(): target, type and the one type-specific field.
Msg(to, type, arg) == [to |-> to, type |-> type, arg |-> arg]

\* ── Session store ─────────────────────────────────────────────────────────
\* Truthiness of S[k] for a store S.
Has(S, k) == k \in DOMAIN S \/ k \in InheritedKeys

\* The object S[k] evaluates to (own property first, then the prototype chain).
Get(S, I, k) == IF k \in DOMAIN S THEN S[k] ELSE I[k]

\* session.<f> = v, as it changes the store's own entries.
SetOwn(S, k, f, v) ==
    IF k \in DOMAIN S THEN [S EXCEPT ![k] = [@ EXCEPT ![f] = v]] ELSE S

\* session.<f> = v, as it changes an inherited object.
SetInherited(S, I, k, f, v) ==
    IF k \notin DOMAIN S /\ k \in DOMAIN I
    THEN [I EXCEPT ![k] = [@ EXCEPT ![f] = v]] ELSE I

getOrCreateSession(S, k) ==
    IF Has(S, k) THEN S ELSE S @@ (k :> EmptySession)

cleanSession(S, I, k) ==
    IF ~Has(S, k) THEN S
    ELSE IF Get(S, I, k).camera = NoConn /\ Get(S, I, k).dashboard = NoConn
         THEN [x \in DOMAIN S \ {k} |-> S[x]]
         ELSE S

Init ==
    /\ chan = [c \in Conns |-> "new"]
    /\ role = [c \in Conns |-> JSNull]
    /\ pin = [c \in Conns |-> JSNull]
    /\ sessions = << >>
    /\ inherited = [k \in InheritedKeys |-> EmptySession]
    /\ sent = << >>
    /\ last = NoEvent
    /\ rej = NoReject
    /\ acked = [c \in Conns |-> FALSE]
    /\ msgs = 0
    /\ running = TRUE

Event(c, type) == [conn |-> c, type |-> type]

\* No slot of any session refers to connection c.
Unreferenced(c) ==
    /\ \A k \in DOMAIN sessions : c \notin {sessions[k].camera, sessions[k].dashboard}
    /\ \A k \in DOMAIN inherited : c \notin {inherited[k].camera, inherited[k].dashboard}

\* wss.on('connection'): a fresh connection context, role and pin null. The
\* identity of a connection whose close event has been handled and that no
\* slot refers to any more is free again for a new connection.
\* Connections that are open and have not registered are interchangeable (no
\* handler can tell them apart), so the next one is accepted only once every
\* earlier one has registered or gone down.
Connect(c) ==
    /\ running
    /\ chan[c] = "new" \/ (chan[c] = "closed" /\ Unreferenced(c))
    /\ \A d \in Conns : d < c =>
          chan[d] # "new" /\ (role[d] # JSNull \/ chan[d] # "open")
    /\ chan' = [chan EXCEPT ![c] = "open"]
    /\ role' = [role EXCEPT ![c] = JSNull]
    /\ pin' = [pin EXCEPT ![c] = JSNull]
    /\ acked' = [acked EXCEPT ![c] = FALSE]
    /\ rej' = IF c \in {rej.conn, rej.holder} THEN NoReject ELSE rej
    /\ sent' = << >>
    /\ last' = Event(c, "connect")
    /\ UNCHANGED <<sessions, inherited, msgs, running>>

\* The channel stops being OPEN; its close event is still to be dispatched.
\* Only registered connections are followed through it: the close handler of
\* a connection whose pin is still null returns at once, no slot refers to
\* such a connection, and its identity is as good as a fresh one.
Drop(c) ==
    /\ running
    /\ chan[c] = "open"
    /\ role[c] # JSNull
    /\ chan' = [chan EXCEPT ![c] = "down"]
    /\ sent' = << >>
    /\ last' = Event(c, "drop")
    /\ UNCHANGED <<role, pin, sessions, inherited, rej, acked, msgs, running>>

\* Variant: the readyState test inverted.
CameraBusy_Inverted(session) == session.camera # NoConn /\ ~IsOpen(session.camera)

\* Variant: the readyState test left out.
CameraBusy_NoReadyState(session) == session.camera # NoConn

\* session.camera && session.camera.readyState === WebSocket.OPEN
CameraBusy(session) == session.camera # NoConn /\ IsOpen(session.camera)

\* Variant: the camera's readyState not consulted.
JoinReplies_NoReadyState(c, p, session) ==
    IF session.camera # NoConn
    THEN << Msg(c, "camera:online", p), Msg(session.camera, "dashboard:ready", p) >>
    ELSE << Msg(c, "camera:offline", p) >>

\* Variant: the camera is not prompted.
JoinReplies_NoReady(c, p, session) ==
    IF IsOpen(session.camera)
    THEN << Msg(c, "camera:online", p) >>
    ELSE << Msg(c, "camera:offline", p) >>

\* The sends of dashboard:join, given the session as it was looked up.
JoinReplies(c, p, session) ==
    IF IsOpen(session.camera)
    THEN << Msg(c, "camera:online", p), Msg(session.camera, "dashboard:ready", p) >>
    ELSE << Msg(c, "camera:offline", p) >>

\* Variant: the waiting dashboard is not notified.
RegisterReplies_NoNotify(c, p, session) ==
    << Msg(c, "camera:registered", p) >>

\* The sends of a successful camera:register, given the session as it was
\* looked up.
RegisterReplies(c, p, session) ==
    << Msg(c, "camera:registered", p) >> \o
    (IF IsOpen(session.dashboard)
     THEN << Msg(session.dashboard, "camera:online", p) >>
     ELSE << >>)

\* type === 'camera:register'
CameraRegister(c, json) ==
    LET p == String(json)
        S1 == getOrCreateSession(sessions, p)
        session == Get(S1, inherited, p)
    IN  /\ Receives(c)
        /\ pin' = [pin EXCEPT ![c] = p]
        /\ role' = [role EXCEPT ![c] = "camera"]
        /\ last' = Event(c, "camera:register")
        /\ UNCHANGED <<chan, running>>
        /\ IF CameraBusy(session)
           THEN /\ sessions' = S1
                /\ UNCHANGED inherited
                /\ sent' = << Msg(c, "error", "PIN already in use by another camera") >>
                /\ rej' = [conn |-> c, holder |-> session.camera, pin |-> p]
                /\ acked' = [acked EXCEPT ![c] = FALSE]
           ELSE /\ sessions' = SetOwn(S1, p, "camera", c)
                /\ inherited' = SetInherited(S1, inherited, p, "camera", c)
                /\ sent' = RegisterReplies(c, p, session)
                /\ acked' = [acked EXCEPT ![c] = TRUE]
                /\ UNCHANGED rej

\* type === 'dashboard:join'
DashboardJoin(c, json) ==
    LET p == String(json)
        S1 == getOrCreateSession(sessions, p)
        session == Get(S1, inherited, p)
    IN  /\ Receives(c)
        /\ pin' = [pin EXCEPT ![c] = p]
        /\ role' = [role EXCEPT ![c] = "dashboard"]
        /\ sessions' = SetOwn(S1, p, "dashboard", c)
        /\ inherited' = SetInherited(S1, inherited, p, "dashboard", c)
        /\ last' = Event(c, "dashboard:join")
        /\ sent' = JoinReplies(c, p, session)
        /\ acked' = [acked EXCEPT ![c] = FALSE]
        /\ UNCHANGED <<chan, rej, running>>

\* type === 'offer'
Offer(c, payload) ==
    LET k == Key(pin[c])
    IN  /\ Receives(c)
        /\ last' = Event(c, "offer")
        /\ sent' = IF Has(sessions, k) /\ Get(sessions, inherited, k).dashboard # NoConn
                   THEN << Msg(Get(sessions, inherited, k).dashboard, "offer",
                               Reserialize(payload)) >>
                   ELSE << >>
        /\ UNCHANGED <<chan, role, pin, sessions, inherited, rej, acked, running>>

\* type === 'answer'
Answer(c, payload) ==
    LET k == Key(pin[c])
    IN  /\ Receives(c)
        /\ last' = Event(c, "answer")
        /\ sent' = IF Has(sessions, k) /\ Get(sessions, inherited, k).camera # NoConn
                   THEN << Msg(Get(sessions, inherited, k).camera, "answer",
                               Reserialize(payload)) >>
                   ELSE << >>
        /\ UNCHANGED <<chan, role, pin, sessions, inherited, rej, acked, running>>

\* const target = role === 'camera' ? session.dashboard : session.camera
IceTarget(c, session) ==
    IF role[c] = "camera" THEN session.dashboard ELSE session.camera

\* type === 'ice'
Ice(c, payload) ==
    LET k == Key(pin[c])
    IN  /\ Receives(c)
        /\ last' = Event(c, "ice")
        /\ sent' = IF Has(sessions, k)
                      /\ IsOpen(IceTarget(c, Get(sessions, inherited, k)))
                   THEN << Msg(IceTarget(c, Get(sessions, inherited, k)), "ice",
                               Reserialize(payload)) >>
                   ELSE << >>
        /\ UNCHANGED <<chan, role, pin, sessions, inherited, rej, acked, running>>

\* Any other type: the fall-through reply.
UnknownType(c) ==
    /\ Receives(c)
    /\ last' = Event(c, "bogus")
    /\ sent' = << Msg(c, "error", "Unknown message type: bogus") >>
    /\ UNCHANGED <<chan, role, pin, sessions, inherited, rej, acked, running>>

\* JSON.parse throws.
InvalidJSON(c) ==
    /\ Receives(c)
    /\ last' = Event(c, "<unparseable>")
    /\ sent' = << Msg(c, "error", "Invalid JSON") >>
    /\ UNCHANGED <<chan, role, pin, sessions, inherited, rej, acked, running>>

\* JSON.parse returns null (the text `null`): `const { type } = msg` throws
\* outside the try block, so nothing is sent. The exception is uncaught and
\* ends the process: the store and every connection context are gone and
\* every accepted channel is cut without its close handler running.
NullMessage(c) ==
    /\ Receives(c)
    /\ last' = Event(c, "<null>")
    /\ sent' = << >>
    /\ running' = FALSE
    /\ chan' = [d \in Conns |-> IF chan[d] = "new" THEN "new" ELSE "closed"]
    /\ role' = [d \in Conns |-> JSNull]
    /\ pin' = [d \in Conns |-> JSNull]
    /\ sessions' = << >>
    /\ inherited' = [k \in InheritedKeys |-> EmptySession]
    /\ rej' = NoReject
    /\ acked' = [d \in Conns |-> FALSE]

\* ws.on('close')
OnClose(c) ==
    LET p == pin[c]
        session == Get(sessions, inherited, p)
        S1 == IF role[c] = "camera" THEN SetOwn(sessions, p, "camera", NoConn)
              ELSE IF role[c] = "dashboard" THEN SetOwn(sessions, p, "dashboard", NoConn)
              ELSE sessions
        I1 == IF role[c] = "camera"
              THEN SetInherited(sessions, inherited, p, "camera", NoConn)
              ELSE IF role[c] = "dashboard"
              THEN SetInherited(sessions, inherited, p, "dashboard", NoConn)
              ELSE inherited
    IN  /\ running
        /\ chan[c] = "down"
        /\ chan' = [chan EXCEPT ![c] = "closed"]
        /\ last' = Event(c, "close")
        /\ acked' = [acked EXCEPT ![c] = FALSE]
        /\ role' = [role EXCEPT ![c] = JSNull]
        /\ pin' = [pin EXCEPT ![c] = JSNull]
        /\ UNCHANGED <<rej, msgs, running>>
        /\ IF Falsy(p) \/ ~Has(sessions, p)
           THEN /\ sent' = << >>
                /\ UNCHANGED <<sessions, inherited>>
           ELSE /\ sent' = IF role[c] = "camera" /\ IsOpen(session.dashboard)
                           THEN << Msg(session.dashboard, "camera:offline", p) >>
                           ELSE << >>
                /\ sessions' = cleanSession(S1, I1, p)
                /\ inherited' = I1

Next ==
    \/ \E c \in Conns : Connect(c)
    \/ \E c \in Conns : Drop(c)
    \/ \E c \in Conns, j \in PinInputs : CameraRegister(c, j)
    \/ \E c \in Conns, j \in PinInputs : DashboardJoin(c, j)
    \/ \E c \in Conns, x \in Payloads : Offer(c, x)
    \/ \E c \in Conns, x \in Payloads : Answer(c, x)
    \/ \E c \in Conns, x \in Payloads : Ice(c, x)
    \/ \E c \in Conns : UnknownType(c)
    \/ \E c \in Conns : InvalidJSON(c)
    \/ \E c \in Conns : NullMessage(c)
    \/ \E c \in Conns : OnClose(c)

Spec == Init /\ [][Next]_vars

\* ── Properties ────────────────────────────────────────────────────────────
\* The connection in pin k's camera / dashboard slot, NoConn when the lookup
\* sessions[k] is falsy or the slot is.
CameraOf(S, I, k) == IF Has(S, k) THEN Get(S, I, k).camera ELSE NoConn

DashboardOf(S, I, k) == IF Has(S, k) THEN Get(S, I, k).dashboard ELSE NoConn

RejectText == "PIN already in use by another camera"

\* C1: when connection a holds pin p's camera slot and is open, handling
\* camera:register{p} from another connection b sends exactly one message,
\* an error to b (so no camera:registered, nothing to a or to p's dashboard),
\* and p's camera slot still holds a afterwards.
C1_RejectSecondCamera ==
    [][last'.type = "camera:register" =>
       \A a \in Conns, b \in Conns, j \in PinInputs :
             ( /\ last' = Event(b, "camera:register")
               /\ a # b
               /\ CameraOf(sessions, inherited, String(j)) = a
               /\ chan[a] = "open"
               /\ CameraRegister(b, j) )
             => /\ sent' = << Msg(b, "error", RejectText) >>
                /\ CameraOf(sessions', inherited', String(j)) = a]_vars

\* A registration from last.conn has just been rejected while another, open
\* connection holds the slot.
C1_Witness ==
    /\ last.type = "camera:register"
    /\ sent = << Msg(last.conn, "error", RejectText) >>
    /\ CameraOf(sessions, inherited, pin[last.conn]) \in Conns \ {last.conn}
    /\ chan[CameraOf(sessions, inherited, pin[last.conn])] = "open"

\* C2: after a registration for pin p was rejected because camera a was open
\* on p, p's camera slot keeps holding a for as long as a stays open,
\* whatever the rejected connection does afterwards.
C2_HolderUntouched ==
    (rej.conn # 0 /\ chan[rej.holder] = "open")
        => CameraOf(sessions, inherited, rej.pin) = rej.holder

\* C3: if b's camera:register{p} was rejected because a was open on p, then
\* once a's close event has been handled (and no other connection has taken
\* p's camera slot in the meantime) a repeated camera:register{p} from b is
\* answered with camera:registered{p} and b occupies p's camera slot.
C3_RetryAfterClose ==
    [][last'.type = "camera:register" =>
       \A b \in Conns, j \in PinInputs :
             ( /\ last' = Event(b, "camera:register")
               /\ rej.conn = b
               /\ rej.pin = String(j)
               /\ chan[rej.holder] = "closed"
               /\ CameraOf(sessions, inherited, String(j)) \in {NoConn, rej.holder}
               /\ CameraRegister(b, j) )
             => /\ Len(sent') >= 1
                /\ sent'[1] = Msg(b, "camera:registered", String(j))
                /\ \A i \in 1..Len(sent') : sent'[i].type # "error"
                /\ CameraOf(sessions', inherited', String(j)) = b]_vars

\* The rejected connection has registered again after the holder's close
\* event and now occupies the slot.
C3_Witness ==
    /\ rej.conn # 0
    /\ chan[rej.holder] = "closed"
    /\ last = Event(rej.conn, "camera:register")
    /\ pin[rej.conn] = rej.pin
    /\ sent[1] = Msg(rej.conn, "camera:registered", rej.pin)
    /\ CameraOf(sessions, inherited, rej.pin) = rej.conn

\* C5: between event handlers, a pin has an entry in the registry exactly
\* when at least one of its two slots is occupied.
C5_EntryIffSlotOccupied ==
    \A k \in Pins :
        (k \in DOMAIN sessions)
            <=> ( \/ CameraOf(sessions, inherited, k) # NoConn
                  \/ DashboardOf(sessions, inherited, k) # NoConn )

\* C6: no pin leaks; stated at the instants at which the close event of every
\* accepted connection has been handled (so, for each pin, that of every
\* connection that registered or joined under it): the registry is empty.
C6_NoPinLeak ==
    (\A c \in Conns : chan[c] \in {"new", "closed"})
        => \A k \in Pins : k \notin DOMAIN sessions

\* C7: when dashboard:join{p} is handled and p has no open camera (slot
\* absent or its channel not open), exactly one message is sent,
\* camera:offline{p} to the joining connection.
C7_JoinWithoutCamera ==
    [][last'.type = "dashboard:join" =>
       \A c \in Conns, j \in PinInputs :
             ( /\ last' = Event(c, "dashboard:join")
               /\ ~IsOpen(CameraOf(sessions, inherited, String(j)))
               /\ DashboardJoin(c, j) )
             => sent' = << Msg(c, "camera:offline", String(j)) >>]_vars

\* A join has just been answered with camera:offline alone while another
\* open connection had joined the same pin as dashboard before.
C7_Witness ==
    /\ last.type = "dashboard:join"
    /\ sent = << Msg(last.conn, "camera:offline", pin[last.conn]) >>
    /\ \E d \in Conns \ {last.conn} :
          chan[d] = "open" /\ role[d] = "dashboard" /\ pin[d] = pin[last.conn]

\* C8: when dashboard:join{p} is handled while p's camera slot holds an open
\* connection, the joiner is sent camera:online{p}, that camera is sent
\* dashboard:ready{p}, and nothing else is sent.
C8_JoinWithCamera ==
    [][last'.type = "dashboard:join" =>
       \A c \in Conns, j \in PinInputs :
             ( /\ last' = Event(c, "dashboard:join")
               /\ IsOpen(CameraOf(sessions, inherited, String(j)))
               /\ DashboardJoin(c, j) )
             => sent' = << Msg(c, "camera:online", String(j)),
                           Msg(CameraOf(sessions, inherited, String(j)),
                               "dashboard:ready", String(j)) >>]_vars

\* A join has just been answered with camera:online, and the open camera of
\* the pin, another connection, has been sent dashboard:ready.
C8_Witness ==
    /\ last.type = "dashboard:join"
    /\ Len(sent) = 2
    /\ sent[1] = Msg(last.conn, "camera:online", pin[last.conn])
    /\ sent[2].type = "dashboard:ready"
    /\ sent[2].to = CameraOf(sessions, inherited, pin[last.conn])
    /\ sent[2].to # last.conn
    /\ chan[sent[2].to] = "open"

\* C9: when the camera of a pin sends offer{x}: if the pin's session has a
\* dashboard reference, exactly one message, offer{x} with x unchanged, is
\* sent, to that dashboard; otherwise nothing is sent.
C9_OfferRelayedUnchanged ==
    [][\A c \in Conns, x \in Payloads :
          (last' = Event(c, "offer") /\ role[c] = "camera" /\ Offer(c, x))
          => sent' = IF DashboardOf(sessions, inherited, pin[c]) # NoConn
                     THEN << Msg(DashboardOf(sessions, inherited, pin[c]),
                                 "offer", x) >>
                     ELSE << >>]_vars

\* C10: an ice message is never sent back to its sender: one from a
\* connection whose role is dashboard goes to the session's camera only, one
\* from a camera to the session's dashboard only.
C10_IceNeverEchoed ==
    [][\A c \in Conns, x \in Payloads :
          (last' = Event(c, "ice") /\ role[c] # JSNull /\ Ice(c, x))
          => \A i \in 1..Len(sent') :
                /\ sent'[i].to # c
                /\ sent'[i].to = IF role[c] = "camera"
                                 THEN DashboardOf(sessions, inherited, pin[c])
                                 ELSE CameraOf(sessions, inherited, pin[c])]_vars

\* C11: handling a malformed payload or a message with an unrecognized type
\* sends exactly one message, an error to the offending sender, and leaves
\* the registry and every connection's role and pin unchanged (and is never
\* fatal: the server keeps running).
C11_ProtocolErrorReported ==
    [][\A c \in Conns :
          ( /\ last'.conn = c
            /\ last'.type \in {"bogus", "<unparseable>", "<null>"}
            /\ (UnknownType(c) \/ InvalidJSON(c) \/ NullMessage(c)) )
          => /\ Len(sent') = 1
             /\ sent'[1].to = c
             /\ sent'[1].type = "error"
             /\ running'
             /\ UNCHANGED <<sessions, inherited, role, pin>>]_vars

\* C12: handling a message or the close event of connection c touches the
\* session of one pin only, the pin named in a registration message or else
\* c's assigned pin: for every other pin q no slot is set or cleared and q's
\* entry is neither created nor removed.
C12_OtherPinsUntouched ==
    [][\A c \in Conns, q \in Pins :
          ( /\ last'.conn = c
            /\ last'.type \notin {"connect", "drop"}
            /\ q # Key(IF last'.type \in {"camera:register", "dashboard:join"}
                       THEN pin'[c] ELSE pin[c]) )
          => /\ (q \in DOMAIN sessions') <=> (q \in DOMAIN sessions)
             /\ CameraOf(sessions', inherited', q) = CameraOf(sessions, inherited, q)
             /\ DashboardOf(sessions', inherited', q)
                    = DashboardOf(sessions, inherited, q)]_vars

\* C13: a connection's role and pin are set exactly once. Once a registration
\* message has assigned them, no later message from the connection changes
\* them, and they are set only in a step in which the connection takes a slot
\* of the session of its new pin.
C13_RoleAndPinSetOnce ==
    [][\A c \in Conns :
          ( /\ last'.conn = c
            /\ last'.type \in {"camera:register", "dashboard:join", "offer",
                                "answer", "ice", "bogus", "<unparseable>"} )
          => /\ role[c] # JSNull => (role'[c] = role[c] /\ pin'[c] = pin[c])
             /\ (role'[c] # role[c] \/ pin'[c] # pin[c])
                   => \/ /\ role'[c] = "camera"
                         /\ CameraOf(sessions', inherited', Key(pin'[c])) = c
                      \/ /\ role'[c] = "dashboard"
                         /\ DashboardOf(sessions', inherited', Key(pin'[c])) = c]_vars

\* C14: relay direction is fixed by role. Every offer delivered (sent to an
\* open connection) comes from a sender whose role is camera, every answer
\* delivered comes from a sender whose role is dashboard, and neither is
\* delivered to its own sender.
C14_RelayDirectionByRole ==
    [][\A c \in Conns :
          (last'.conn = c /\ last'.type \in {"offer", "answer"})
          => \A i \in 1..Len(sent') :
                (sent'[i].type \in {"offer", "answer"} /\ IsOpen(sent'[i].to))
                => /\ sent'[i].to # c
                   /\ sent'[i].type = "offer" => role[c] = "camera"
                   /\ sent'[i].type = "answer" => role[c] = "dashboard"]_vars

\* C15: a dashboard slot is cleared only by the close of the connection it
\* holds. Handling the close event of any other connection (such as a
\* dashboard that was replaced in the slot) leaves the reference in place and
\* the session in the store.
C15_DashboardClearedByHolderOnly ==
    [][\A c \in Conns, q \in Pins :
          ( /\ last' = Event(c, "close")
            /\ q \in DOMAIN sessions
            /\ sessions[q].dashboard \notin {NoConn, c} )
          => /\ q \in DOMAIN sessions'
             /\ sessions'[q].dashboard = sessions[q].dashboard]_vars

\* C16: on the close event of a connection c with a role whose pin p has a
\* session, the slot of c's role in that session becomes absent; a closing
\* camera makes the server send exactly one camera:offline{p}, to p's
\* dashboard, when that dashboard is open, and nothing otherwise; a closing
\* dashboard makes it send nothing; and p's session is removed exactly when
\* both slots are then absent.
C16_CloseClearsSlotAndNotifies ==
    [][\A c \in Conns :
          ( /\ last' = Event(c, "close")
            /\ role[c] \in {"camera", "dashboard"}
            /\ pin[c] \in DOMAIN sessions )
          => LET p == pin[c]
                 other == IF role[c] = "camera" THEN sessions[p].dashboard
                          ELSE sessions[p].camera
             IN  /\ IF role[c] = "camera"
                    THEN CameraOf(sessions', inherited', p) = NoConn
                    ELSE DashboardOf(sessions', inherited', p) = NoConn
                 /\ sent' = IF role[c] = "camera" /\ IsOpen(sessions[p].dashboard)
                            THEN << Msg(sessions[p].dashboard, "camera:offline", p) >>
                            ELSE << >>
                 /\ (p \notin DOMAIN sessions') <=> (other = NoConn)
                 /\ p \in DOMAIN sessions'
                       => (IF role[c] = "camera" THEN sessions'[p].dashboard
                           ELSE sessions'[p].camera) = other]_vars

\* C17: when camera:register{p} from c succeeds (p's camera slot was absent
\* or held a connection that is not open), c occupies p's camera slot and is
\* sent camera:registered{p}, and an open dashboard held by p's session is
\* sent camera:online{p}; nothing else is sent.
C17_RegisterSucceeds ==
    [][last'.type = "camera:register" =>
       \A c \in Conns :
             ( /\ last' = Event(c, "camera:register")
               /\ ~IsOpen(CameraOf(sessions, inherited, pin'[c])) )
             => LET p == pin'[c]
                    d == DashboardOf(sessions, inherited, p)
                IN  /\ CameraOf(sessions', inherited', p) = c
                    /\ DashboardOf(sessions', inherited', p) = d
                    /\ sent' = IF IsOpen(d)
                               THEN << Msg(c, "camera:registered", p),
                                       Msg(d, "camera:online", p) >>
                               ELSE << Msg(c, "camera:registered", p) >>]_vars

\* A camera has just registered on a pin whose dashboard, another open
\* connection that joined earlier, was told that the camera is online.
C17_Witness ==
    /\ last.type = "camera:register"
    /\ Len(sent) = 2
    /\ sent[1] = Msg(last.conn, "camera:registered", pin[last.conn])
    /\ sent[2].type = "camera:online"
    /\ sent[2].to # last.conn
    /\ role[sent[2].to] = "dashboard"
    /\ chan[sent[2].to] = "open"
    /\ CameraOf(sessions, inherited, pin[last.conn]) = last.conn

\* C18: at every instant and for every pin, at most one open connection is
\* an acknowledged camera of the pin (the reply to its latest registration
\* message was camera:registered for that pin): two distinct open connections
\* are never both acknowledged cameras of the same pin.
C18_OneAcknowledgedCameraPerPin ==
    \A a \in Conns, b \in Conns :
        ( /\ a # b
          /\ chan[a] = "open" /\ acked[a]
          /\ chan[b] = "open" /\ acked[b] )
        => pin[a] # pin[b]

\* C19: the window between a channel ceasing to be open and its close event
\* is safe. If camera b registered on pin p and was acknowledged while the
\* close event of p's earlier camera a was pending, then handling a's close
\* event leaves b in p's camera slot, leaves p's session in the store and
\* sends no camera:offline while b is open.
C19_CloseWindowSafe ==
    [][last'.type = "close" =>
       \A a \in Conns, b \in Conns :
             ( /\ last' = Event(a, "close")
               /\ role[a] = "camera"
               /\ b # a
               /\ chan[b] = "open" /\ acked[b] /\ pin[b] = pin[a]
               /\ CameraOf(sessions, inherited, pin[a]) = b )
             => /\ CameraOf(sessions', inherited', pin[a]) = b
                /\ pin[a] \in DOMAIN sessions => pin[a] \in DOMAIN sessions'
                /\ \A i \in 1..Len(sent') : sent'[i].type # "camera:offline"]_vars

\* C20: a connection that has never sent a registration message (role and
\* pin still null) cannot cause any delivery: handling its offer, answer or
\* ice message sends nothing, whatever pins other connections registered.
C20_UnregisteredSendsNothing ==
    [][last'.type \in {"offer", "answer", "ice"} =>
       \A c \in Conns :
             ( /\ last'.conn = c
               /\ role[c] = JSNull
               /\ pin[c] = JSNull )
             => sent' = << >>]_vars

====
